---------------------------- MODULE Spec2Model ----------------------------
(* Booking wizard and date/time picker of src/App.tsx (BookPage,           *)
(* DateTimePickerModal, DesktopTimePicker, WheelPicker).                    *)
(*                                                                          *)
(* Strings are sequences of one-character strings ("09:00" is               *)
(* <<"0","9",":","0","0">>), so formatting and parsing are modelled by what *)
(* they do.  A Date is the number of minutes since the local midnight of    *)
(* 1 January EpochYear; the clock has a resolution of one minute.           *)
EXTENDS Integers, Sequences, FiniteSets, TLC

(***************************************************************************)
(* Bounds of the model                                                     *)
(***************************************************************************)
\* number of calendar days after the first one that the clock can reach
MaxDay == 1
\* number of months after the first day's month the calendar can show (months
\* before it hold past days only and are not visited)
MaxMonthNav == 1
\* length of the catalog prefix the reconciliation inputs are drawn from
MaxReconcileSlots == 4
\* number of requests that can be awaiting their response at once
MaxInFlight == 2

(***************************************************************************)
(* Strings                                                                 *)
(***************************************************************************)
Range(s) == {s[i] : i \in 1..Len(s)}

Digits == <<"0", "1", "2", "3", "4", "5", "6", "7", "8", "9">>

DigitValue(c) == CHOOSE n \in 0..9 : Digits[n + 1] = c

\* String(n) for a non-negative integer
RECURSIVE String(_)
String(n) == IF n < 10 THEN <<Digits[n + 1]>>
             ELSE String(n \div 10) \o <<Digits[(n % 10) + 1]>>

\* s.padStart(len, c)
RECURSIVE PadStart(_, _, _)
PadStart(s, len, c) == IF Len(s) >= len THEN s ELSE PadStart(<<c>> \o s, len, c)

\* NaN, and the time value of an Invalid Date: a number no digit string and no
\* date of the model has
NaN == -1

\* the value of a string of decimal digits ('' has the value 0)
RECURSIVE DecimalValue(_)
DecimalValue(s) ==
    IF Len(s) = 0 THEN 0
    ELSE DecimalValue(SubSeq(s, 1, Len(s) - 1)) * 10 + DigitValue(s[Len(s)])

\* Number(s) for a string of decimal digits or letters: NaN unless every
\* character is a digit
Number(s) == IF \A i \in 1..Len(s) : s[i] \in Range(Digits) THEN DecimalValue(s)
             ELSE NaN

\* s.split(sep) for a one-character separator
RECURSIVE SplitFrom(_, _, _, _)
SplitFrom(s, sep, i, cur) ==
    IF i > Len(s) THEN <<cur>>
    ELSE IF s[i] = sep THEN <<cur>> \o SplitFrom(s, sep, i + 1, <<>>)
    ELSE SplitFrom(s, sep, i + 1, Append(cur, s[i]))

Split(s, sep) == SplitFrom(s, sep, 1, <<>>)

\* arr.includes(x)
Includes(arr, x) == \E i \in 1..Len(arr) : arr[i] = x

(***************************************************************************)
(* Dates (JavaScript Date in local time, minute resolution)                *)
(***************************************************************************)
\* dates count from 1 January 2024, a Monday (getDay() = 1)
Epoch == [year |-> 2024, weekday |-> 1]
EpochYear == Epoch.year
EpochWeekday == Epoch.weekday
MinutesPerDay == 24 * 60

IsLeapYear(y) == (y % 4 = 0 /\ y % 100 # 0) \/ y % 400 = 0

DaysInYear(y) == IF IsLeapYear(y) THEN 366 ELSE 365

\* getDaysInMonth(month, year): month is 0-based
getDaysInMonth(month, year) ==
    CASE month \in {0, 2, 4, 6, 7, 9, 11} -> 31
      [] month \in {3, 5, 8, 10} -> 30
      [] OTHER -> IF IsLeapYear(year) THEN 29 ELSE 28

RECURSIVE DaysBeforeYear(_)
DaysBeforeYear(y) == IF y <= EpochYear THEN 0
                     ELSE DaysBeforeYear(y - 1) + DaysInYear(y - 1)

RECURSIVE DaysBeforeMonth(_, _)
DaysBeforeMonth(y, m) == IF m <= 0 THEN 0
                         ELSE DaysBeforeMonth(y, m - 1) + getDaysInMonth(m - 1, y)

\* new Date(year, month, day): local midnight; a day beyond the month's end
\* rolls over as in JavaScript
NewDate(year, month, day) ==
    (DaysBeforeYear(year) + DaysBeforeMonth(year, month) + day - 1) * MinutesPerDay

DayIndex(t) == t \div MinutesPerDay

RECURSIVE YearFrom(_, _)
YearFrom(y, days) == IF days < DaysInYear(y) THEN y
                     ELSE YearFrom(y + 1, days - DaysInYear(y))

RECURSIVE MonthFrom(_, _, _)
MonthFrom(y, m, days) == IF days < getDaysInMonth(m, y) THEN m
                         ELSE MonthFrom(y, m + 1, days - getDaysInMonth(m, y))

\* the first calendar day of a session
FirstDay == NewDate(2024, 11, 31)

\* the calendar fields of the day dayOfYear (0-based) of month month of year
DateInMonth(year, month, dayOfYear) ==
    [year |-> year, month |-> month,
     date |-> dayOfYear - DaysBeforeMonth(year, month) + 1]

\* the calendar fields of the day dayOfYear (0-based) of year
DateInYear(year, dayOfYear) ==
    DateInMonth(year, MonthFrom(year, 0, dayOfYear), dayOfYear)

\* year, month and day of month of the day with index d, as Date computes them
CalendarOf(d) ==
    DateInYear(YearFrom(EpochYear, d), d - DaysBeforeYear(YearFrom(EpochYear, d)))

\* the days around day index d that the model can show
DaysAround(d) == (d - 31) .. (d + 31 * (MaxMonthNav + 1) + MaxDay)

\* CalendarOf tabulated for the days the model can show
CalendarWindow == DaysAround(DayIndex(FirstDay))

CalendarTable == [d \in CalendarWindow |-> CalendarOf(d)]

CalendarAt(d) == IF d \in DOMAIN CalendarTable THEN CalendarTable[d]
                 ELSE CalendarOf(d)

\* the getters of an Invalid Date return NaN
Calendar(t) == IF t = NaN THEN [year |-> NaN, month |-> NaN, date |-> NaN]
               ELSE CalendarAt(DayIndex(t))

getFullYear(t) == Calendar(t).year
getMonth(t) == Calendar(t).month
getDate(t) == Calendar(t).date
getDay(t) == IF t = NaN THEN NaN ELSE (DayIndex(t) + EpochWeekday) % 7

\* date.toDateString(): the weekday with the month, day of month and year
toDateString(t) == <<getDay(t), Calendar(t)>>

\* date.setHours(0, 0, 0, 0)
stripTime(t) == IF t = NaN THEN NaN ELSE t - (t % MinutesPerDay)

\* date.setHours(hour, minute, 0, 0)
setHours(t, hour, minute) == IF t = NaN THEN NaN
                             ELSE stripTime(t) + hour * 60 + minute

getTodayLocal(clock) == stripTime(clock)

\* a comparison with NaN is false
isPastDate(date, clock) == date # NaN /\ stripTime(date) < getTodayLocal(clock)

isTodayDate(date, clock) == date # NaN /\ stripTime(date) = getTodayLocal(clock)

(***************************************************************************)
(* Slots                                                                   *)
(***************************************************************************)
FirstHour == 9
LastHour == 21
SlotMinutes == <<0, 30>>

SlotString(hour, minute) ==
    PadStart(String(hour), 2, "0") \o <<":">> \o PadStart(String(minute), 2, "0")

\* the for-loops of getAllTimeSlots, from hour h on
RECURSIVE SlotsFromHour(_)
SlotsFromHour(h) ==
    IF h > LastHour THEN <<>>
    ELSE [i \in 1..Len(SlotMinutes) |-> SlotString(h, SlotMinutes[i])]
         \o SlotsFromHour(h + 1)

getAllTimeSlots == SlotsFromHour(FirstHour)

\* const [hours, minutes] = parts.map(Number)
HoursMinutes(parts) == [hour |-> Number(parts[1]), minute |-> Number(parts[2])]

\* slot.split(':').map(Number)
SplitHM(slot) == HoursMinutes(Split(slot, ":"))

\* SplitHM tabulated for the slots of the catalog
CatalogHM == [slot \in Range(getAllTimeSlots) |-> SplitHM(slot)]

ParseHM(slot) == IF slot \in DOMAIN CatalogHM THEN CatalogHM[slot] ELSE SplitHM(slot)

\* slotDate = new Date(date); slotDate.setHours(hours, minutes, 0, 0)
SlotDate(date, hm) == setHours(date, hm.hour, hm.minute)

\* hours * 60 + minutes
MinutesOf(hm) == hm.hour * 60 + hm.minute

\* isSlotDisabled disabling the slot whose instant is now
isSlotDisabled_AtNow(date, slot, clock) ==
    IF toDateString(clock) # toDateString(date) THEN FALSE
    ELSE SlotDate(date, ParseHM(slot)) <= clock

\* isSlotDisabled comparing the time of day on every date
isSlotDisabled_AnyDay(date, slot, clock) ==
    MinutesOf(ParseHM(slot)) < clock % MinutesPerDay

\* isToday is the equality of the two date strings
isSlotDisabled(date, slot, clock) ==
    IF toDateString(clock) # toDateString(date) THEN FALSE
    ELSE SlotDate(date, ParseHM(slot)) < clock

getAvailableTimeSlots(date, clock) ==
    LET keep(slot) == ~isSlotDisabled(date, slot, clock)
    IN  SelectSeq(getAllTimeSlots, keep)

getDisabledSlots(date, clock) ==
    LET keep(slot) == isSlotDisabled(date, slot, clock)
    IN  SelectSeq(getAllTimeSlots, keep)

\* the return value of parseTimeSlot for hour24 and minute
TimeParts(hour24, minute) ==
    [hour24 |-> hour24,
     hour12 |-> IF hour24 = 0 THEN 12
                ELSE IF hour24 > 12 THEN hour24 - 12 ELSE hour24,
     minute |-> minute,
     period |-> IF hour24 >= 12 THEN "PM" ELSE "AM"]

\* parseTimeSlot(timeSlot)
parseTimeSlot(timeSlot) == TimeParts(ParseHM(timeSlot).hour, ParseHM(timeSlot).minute)

FallbackSlot == SlotString(9, 0)

\* getInitialSlot once slots = getAvailableTimeSlots(selectedDate) is known
InitialSlotAmong(slots, initialTime) ==
    IF Len(slots) = 0 THEN FallbackSlot
    ELSE IF initialTime # <<>> /\ Includes(slots, initialTime)
         THEN initialTime
         ELSE slots[1]

getInitialSlot(date, initialTime, clock) ==
    IF isPastDate(date, clock) THEN FallbackSlot
    ELSE InitialSlotAmong(getAvailableTimeSlots(date, clock), initialTime)

\* getNextAvailableDate(): the scan from today, i days done (never called by
\* the component)
RECURSIVE NextAvailableFrom(_, _, _)
NextAvailableFrom(checkDate, i, clock) ==
    IF i >= 365 THEN getTodayLocal(clock)
    ELSE IF Len(getAvailableTimeSlots(checkDate, clock)) > 0 THEN checkDate
    ELSE NextAvailableFrom(checkDate + MinutesPerDay, i + 1, clock)

getNextAvailableDate(clock) == NextAvailableFrom(stripTime(clock), 0, clock)

\* the i-th item of parts.map(Number); a missing item is undefined, which is
\* NaN in arithmetic
NumberAt(parts, i) == IF i <= Len(parts) THEN Number(parts[i]) ELSE NaN

\* new Date(year, month - 1, day): an Invalid Date when an argument is NaN
DateOf(year, month, day) ==
    IF year = NaN \/ month = NaN \/ day = NaN THEN NaN
    ELSE NewDate(year, month - 1, day)

\* const [year, month, day] = parts and new Date(year, month - 1, day)
DateFromParts(parts) == DateOf(NumberAt(parts, 1), NumberAt(parts, 2), NumberAt(parts, 3))

\* initialDate.split('-').map(Number) and new Date(year, month - 1, day)
ParseDate(initialDate) == DateFromParts(Split(initialDate, "-"))

\* the initializer of the selectedDate state
InitialSelectedDate(initialDate, clock) ==
    IF initialDate # <<>> /\ ~isPastDate(ParseDate(initialDate), clock)
    THEN ParseDate(initialDate)
    ELSE getTodayLocal(clock)

(***************************************************************************)
(* Reconciliation effects of DateTimePickerModal                           *)
(***************************************************************************)
SlotMinuteOfDay(slot) == MinutesOf(ParseHM(slot))

Abs(x) == IF x < 0 THEN -x ELSE x

\* the callback of forEach letting a later slot at the same distance win
KeepNearest_LastWins(acc, slot, diff) ==
    IF acc.infinite \/ diff <= acc.minDiff
    THEN [nearestSlot |-> slot, minDiff |-> diff, infinite |-> FALSE]
    ELSE acc

\* the callback of forEach in the auto-correct effect: the nearest slot so far
\* after slot at distance diff; acc.infinite stands for minDiff = Infinity
KeepNearest(acc, slot, diff) ==
    IF acc.infinite \/ diff < acc.minDiff
    THEN [nearestSlot |-> slot, minDiff |-> diff, infinite |-> FALSE]
    ELSE acc

\* the forEach of the auto-correct effect, from item i on
RECURSIVE NearestFrom(_, _, _, _)
NearestFrom(availableSlots, currentMinutes, i, acc) ==
    IF i > Len(availableSlots) THEN acc.nearestSlot
    ELSE NearestFrom(availableSlots, currentMinutes, i + 1,
             KeepNearest(acc, availableSlots[i],
                 Abs(SlotMinuteOfDay(availableSlots[i]) - currentMinutes)))

NearestSlot(selectedSlot, availableSlots) ==
    NearestFrom(availableSlots, SlotMinuteOfDay(selectedSlot), 1,
        [nearestSlot |-> availableSlots[1], minDiff |-> 0, infinite |-> TRUE])

\* the auto-correct effect: the value of selectedSlot it leaves
AutoCorrect(mode, selectedSlot, availableSlots) ==
    IF mode = "time" /\ Len(availableSlots) > 0
    THEN IF ~Includes(availableSlots, selectedSlot)
         THEN NearestSlot(selectedSlot, availableSlots)
         ELSE selectedSlot
    ELSE IF mode = "time" /\ Len(availableSlots) > 0
            /\ ~Includes(availableSlots, selectedSlot)
         THEN availableSlots[1]
         ELSE selectedSlot

\* the date-change effect: the value of selectedSlot it leaves
DateChangeEffect(mode, selectedSlot, slots) ==
    IF mode = "time" /\ Len(slots) > 0 /\ ~Includes(slots, selectedSlot)
    THEN slots[1]
    ELSE selectedSlot

(***************************************************************************)
(* Output of a confirm                                                     *)
(***************************************************************************)
\* formatOutput().dateStr
DateStr(selectedDate) ==
    String(getFullYear(selectedDate)) \o <<"-">>
    \o PadStart(String(getMonth(selectedDate) + 1), 2, "0") \o <<"-">>
    \o PadStart(String(getDate(selectedDate)), 2, "0")

\* formatOutput().timeStr
TimeStr(mode, selectedSlot) == IF mode = "time" THEN selectedSlot ELSE FallbackSlot

(***************************************************************************)
(* Inputs the model draws                                                  *)
(***************************************************************************)
\* minutes of the first day at which the clock is observed: at the first
\* slot, between the first two slots, and after the last slot; a later day is
\* observed between its first two slots
SampleMinutes == {9 * 60, 9 * 60 + 15, 21 * 60 + 45}
LaterMinutes == {9 * 60 + 15}

Instants == {FirstDay + m : m \in SampleMinutes}
            \cup {FirstDay + d * MinutesPerDay + m : d \in 1..MaxDay, m \in LaterMinutes}

\* cells of the calendar grid the user clicks
ClickDays == {1}

\* 0-based positions of the list the user clicks or focuses, and positions
\* the wheel is scrolled to (the last one lies beyond every list)
ClickIndexes == {0, Len(getAllTimeSlots) - 1}
FocusIndexes == {1}
ScrollIndexes == {0, Len(getAllTimeSlots)}

\* cells of the calendar grid the user clicks in the calendar flow: the first
\* cell of the month and the cell of the 31st
CalendarDays == {1, 31}

\* positions of the list the user clicks or focuses in the time flow (the
\* first two and the last of the catalog), and positions the wheel is
\* scrolled to (the first one lies before and the last one beyond every list)
TimeIndexes == {0, 1, Len(getAllTimeSlots) - 1}
TimeScrollIndexes == {-1, 1, Len(getAllTimeSlots)}

\* options of steps 1 and 2 the user picks
ServiceChoices == {"editing"}
PackageChoices == {"p1"}

\* options of steps 1 and 2 the user picks in the booking flow
ServiceOptions == {"videography", "editing"}
PackageOptions == {"custom", "p1"}

\* a field of step 4 and the value typed into it
DetailInputs ==
    {<<"name", <<"A">> >>, <<"name", <<>> >>,
     <<"email", <<"a", "@", "b">> >>, <<"email", <<"a">> >>,
     <<"brief", <<"v">> >>, <<"phone", <<"5">> >>}

\* how a fetch settles: a response carrying success true, a response carrying
\* success false, or a rejected promise (of fetch or of res.json())
Outcomes == {"success", "failure", "rejected"}

(***************************************************************************)
(* State                                                                   *)
(***************************************************************************)
VARIABLES
    now,             \* the device clock
    step,            \* BookPage: wizard step
    formData,        \* BookPage: booking state
    showDatePicker,  \* BookPage: date-mode modal open
    showTimePicker,  \* BookPage: time-mode modal open
    datePicker,      \* state of the DateTimePickerModal with mode "date"
    timePicker,      \* state of the DateTimePickerModal with mode "time"
    keyDown,         \* position inside DesktopTimePicker.handleKeyDown
    reconcile,       \* inputs and result of a stand-alone reconciliation
    seed,            \* inputs and result of a stand-alone mount
    submitted,       \* BookPage: the submitted view is shown
    alertShown,      \* an alert() dialog is open
    requests         \* requests handed to fetch and not yet answered

\* the state of a submission
submission == <<submitted, alertShown, requests>>

vars == <<now, step, formData, showDatePicker, showTimePicker, datePicker,
          timePicker, keyDown, reconcile, seed, submission>>

\* the initial value of the formData state
EmptyBooking ==
    [serviceType |-> "", packageId |-> "", date |-> <<>>, time |-> <<>>,
     details |-> [name |-> <<>>, email |-> <<>>, phone |-> <<>>,
                  company |-> <<>>, brief |-> <<>>, budget |-> <<>>]]

\* the wizard is rendered and no alert() blocks the page
Interactive == ~submitted /\ ~alertShown

Unmounted == [mounted |-> FALSE]

KeyIdle == [pc |-> "idle"]

ReconcileIdle == [phase |-> "idle"]

SeedIdle == [phase |-> "idle"]

\* the value of selectedSlot after the effects of a render that read slot:
\* afterAuto and afterDate are what the auto-correct effect and the
\* date-change effect set; the later setSelectedSlot wins, and the render
\* caused by that setSelectedSlot runs auto-correct again
SettledSlot(mode, slot, afterAuto, afterDate, availableSlots) ==
    IF afterDate # slot THEN AutoCorrect(mode, afterDate, availableSlots)
    ELSE IF afterAuto # slot THEN AutoCorrect(mode, afterAuto, availableSlots)
    ELSE slot

\* the effects of a render: autoDeps and dateDeps tell which of them run
RunEffects(mode, slot, availableSlots, autoDeps, dateDeps) ==
    SettledSlot(mode, slot,
        IF autoDeps THEN AutoCorrect(mode, slot, availableSlots) ELSE slot,
        IF dateDeps THEN DateChangeEffect(mode, slot, availableSlots) ELSE slot,
        availableSlots)

\* a render that computed availableSlots, followed by its effects.  The
\* date-mode modal never shows the time view and its effects leave the state
\* alone: the slot lists of its renders are not kept.
RenderWith(prev, cur, mode, clock, dateSet, availableSlots) ==
    [cur EXCEPT
        !.selectedSlot =
            RunEffects(mode, cur.selectedSlot, availableSlots,
                \/ ~prev.mounted
                \/ dateSet
                \/ mode = "time" /\ Len(prev.availableSlots) # Len(availableSlots)
                \/ prev.selectedSlot # cur.selectedSlot,
                ~prev.mounted \/ dateSet),
        !.availableSlots = IF mode = "time" THEN availableSlots ELSE <<>>,
        !.disabledSlots = IF mode = "time"
                          THEN getDisabledSlots(cur.selectedDate, clock)
                          ELSE <<>>,
        !.confirmDisabled =
            \/ mode = "time" /\ Len(availableSlots) = 0
            \/ mode = "date" /\ isPastDate(cur.selectedDate, clock)]

\* One render of a DateTimePickerModal at instant clock followed by its
\* effects.  prev is the picker as last rendered, cur carries the state set by
\* the handler; dateSet tells that setSelectedDate was called (a new Date
\* object always differs from the old one as a dependency).
Render(prev, cur, mode, clock, dateSet) ==
    RenderWith(prev, cur, mode, clock, dateSet,
               getAvailableTimeSlots(cur.selectedDate, clock))

\* re-render after a handler of the picker itself: none when no state changed
Rerender(prev, cur, mode, clock, dateSet) ==
    IF cur = prev /\ ~dateSet THEN prev
    ELSE Render(prev, cur, mode, clock, dateSet)

\* the first render of a modal whose selectedDate state starts as selectedDate
MountOn(mode, selectedDate, initialTime, clock, mobile) ==
    Render(Unmounted,
           [mounted |-> TRUE,
            selectedDate |-> selectedDate,
            selectedMonth |-> getMonth(selectedDate),
            selectedYear |-> getFullYear(selectedDate),
            selectedSlot |-> getInitialSlot(selectedDate, initialTime, clock),
            isMobile |-> mobile,
            availableSlots |-> <<>>,
            disabledSlots |-> <<>>,
            confirmDisabled |-> FALSE],
           mode, clock, TRUE)

\* mounting of a DateTimePickerModal: state initializers, checkDevice, first
\* render and effects
Mount(mode, initialDate, initialTime, clock, mobile) ==
    MountOn(mode, InitialSelectedDate(initialDate, clock), initialTime, clock, mobile)

Init ==
    /\ now \in {t \in Instants : stripTime(t) = FirstDay}
    /\ step = 1
    /\ formData = EmptyBooking
    /\ showDatePicker = FALSE
    /\ showTimePicker = FALSE
    /\ datePicker = Unmounted
    /\ timePicker = Unmounted
    /\ keyDown = KeyIdle
    /\ reconcile = ReconcileIdle
    /\ seed = SeedIdle
    /\ submitted = FALSE
    /\ alertShown = FALSE
    /\ requests = <<>>

\* no handler is running and no modal covers the page
PageIdle == Interactive /\ keyDown.pc = "idle" /\ ~showDatePicker /\ ~showTimePicker

\* the clock advances
Tick ==
    /\ \E t \in Instants : t > now /\ now' = t
    /\ UNCHANGED <<step, formData, showDatePicker, showTimePicker, datePicker,
                   timePicker, keyDown, reconcile, seed, submission>>

\* both modals of step 3 mount when the step is shown
MountPickers(data) ==
    \E mobile \in BOOLEAN :
        /\ datePicker' = Mount("date", data.date, data.time, now, mobile)
        /\ timePicker' = Mount("time", data.date, data.time, now, mobile)

UnmountPickers == datePicker' = Unmounted /\ timePicker' = Unmounted

\* a render of BookPage re-renders both modals
RenderPickers ==
    /\ datePicker' = Render(datePicker, datePicker, "date", now, FALSE)
    /\ timePicker' = Render(timePicker, timePicker, "time", now, FALSE)

\* step 1: an option button
SelectService(type) ==
    /\ PageIdle /\ step = 1
    /\ formData' = [formData EXCEPT !.serviceType = type]
    /\ step' = step + 1
    /\ UNCHANGED <<now, showDatePicker, showTimePicker, datePicker, timePicker,
                   keyDown, reconcile, seed, submission>>

\* an option button of step 2 that starts the date and time over
SelectPackage_ResetsDate(id) ==
    /\ PageIdle /\ step = 2
    /\ formData' = [formData EXCEPT !.packageId = id, !.date = <<>>, !.time = <<>>]
    /\ step' = step + 1
    /\ MountPickers(formData')
    /\ UNCHANGED <<now, showDatePicker, showTimePicker, keyDown,
                   reconcile, seed, submission>>

\* step 2: an option button
SelectPackage(id) ==
    /\ PageIdle /\ step = 2
    /\ formData' = [formData EXCEPT !.packageId = id]
    /\ step' = step + 1
    /\ MountPickers(formData')
    /\ UNCHANGED <<now, showDatePicker, showTimePicker, keyDown,
                   reconcile, seed, submission>>

\* the Back button clearing what was entered at the step it leaves
handleBack_ClearsStep ==
    /\ PageIdle /\ step \in 2..4
    /\ step' = step - 1
    /\ formData' = IF step = 4 THEN [formData EXCEPT !.details = EmptyBooking.details]
                   ELSE IF step = 3 THEN [formData EXCEPT !.date = <<>>, !.time = <<>>]
                   ELSE [formData EXCEPT !.packageId = ""]
    /\ IF step' = 3 THEN MountPickers(formData')
       ELSE IF step = 3 THEN UnmountPickers
       ELSE UNCHANGED <<datePicker, timePicker>>
    /\ UNCHANGED <<now, showDatePicker, showTimePicker, keyDown,
                   reconcile, seed, submission>>

\* the Back button returning to step 1 from every step
handleBack_ToStart ==
    /\ PageIdle /\ step \in 2..4
    /\ step' = 1
    /\ IF step = 3 THEN UnmountPickers ELSE UNCHANGED <<datePicker, timePicker>>
    /\ UNCHANGED <<now, formData, showDatePicker, showTimePicker, keyDown, reconcile, seed,
                   submission>>

\* the Back button of steps 2, 3 and 4
handleBack ==
    /\ PageIdle /\ step \in 2..4
    /\ step' = step - 1
    /\ IF step' = 3 THEN MountPickers(formData)
       ELSE IF step = 3 THEN UnmountPickers
       ELSE UNCHANGED <<datePicker, timePicker>>
    /\ UNCHANGED <<now, formData, showDatePicker, showTimePicker, keyDown,
                   reconcile, seed, submission>>

\* the Next Step button of step 3 (disabled while no date is chosen)
handleNext ==
    /\ PageIdle /\ step = 3
    /\ formData.date # <<>>
    /\ step' = step + 1
    /\ UnmountPickers
    /\ UNCHANGED <<now, formData, showDatePicker, showTimePicker, keyDown,
                   reconcile, seed, submission>>

\* click on the date input
OpenDatePicker ==
    /\ PageIdle /\ step = 3
    /\ showDatePicker' = TRUE
    /\ RenderPickers
    /\ UNCHANGED <<now, step, formData, showTimePicker, keyDown,
                   reconcile, seed, submission>>

\* click on the time input
OpenTimePicker ==
    /\ PageIdle /\ step = 3
    /\ showTimePicker' = TRUE
    /\ RenderPickers
    /\ UNCHANGED <<now, step, formData, showDatePicker, keyDown,
                   reconcile, seed, submission>>

\* Cancel or a click outside the modal (onClose)
ClosePicker ==
    /\ Interactive /\ keyDown.pc = "idle"
    /\ showDatePicker \/ showTimePicker
    /\ showDatePicker' = FALSE
    /\ showTimePicker' = FALSE
    /\ RenderPickers
    /\ UNCHANGED <<now, step, formData, keyDown, reconcile, seed, submission>>

\* 12 * year + month of a displayed month
MonthIndex(year, month) == 12 * year + month

\* navigateMonth keeping the year when it wraps
MonthAfter_KeepsYear(direction, month, year) ==
    [month |-> IF direction = "prev"
               THEN IF month = 0 THEN 11 ELSE month - 1
               ELSE IF month = 11 THEN 0 ELSE month + 1,
     year |-> year]

\* the month and year navigateMonth(direction) sets when month and year are
\* displayed
MonthAfter(direction, month, year) ==
    [month |-> IF direction = "prev"
               THEN IF month = 0 THEN 11 ELSE month - 1
               ELSE IF month = 11 THEN 0 ELSE month + 1,
     year |-> IF direction = "prev"
              THEN IF month = 0 THEN year - 1 ELSE year
              ELSE IF month = 11 THEN year + 1 ELSE year]

\* navigateMonth(direction) of the date-mode modal
navigateMonth(direction) ==
    /\ Interactive /\ keyDown.pc = "idle" /\ showDatePicker
    /\ LET new == MonthAfter(direction, datePicker.selectedMonth, datePicker.selectedYear)
           first == MonthIndex(getFullYear(FirstDay), getMonth(FirstDay))
       IN  /\ MonthIndex(new.year, new.month) \in first..(first + MaxMonthNav)
           /\ datePicker' = Rerender(datePicker,
                                [datePicker EXCEPT !.selectedMonth = new.month,
                                                   !.selectedYear = new.year],
                                "date", now, FALSE)
    /\ UNCHANGED <<now, step, formData, showDatePicker, showTimePicker,
                   timePicker, keyDown, reconcile, seed, submission>>

\* selectDate writing the clicked date into the wizard at once
selectDate_WritesWizard(day) ==
    /\ Interactive /\ keyDown.pc = "idle" /\ showDatePicker
    /\ day \in 1..getDaysInMonth(datePicker.selectedMonth, datePicker.selectedYear)
    /\ LET newDate == NewDate(datePicker.selectedYear, datePicker.selectedMonth, day)
       IN  IF ~isPastDate(newDate, now)
           THEN /\ datePicker' = Rerender(datePicker,
                                     [datePicker EXCEPT !.selectedDate = newDate],
                                     "date", now, TRUE)
                /\ formData' = [formData EXCEPT !.date = DateStr(newDate)]
           ELSE /\ datePicker' = datePicker
                /\ formData' = formData
    /\ UNCHANGED <<now, step, showDatePicker, showTimePicker,
                   timePicker, keyDown, reconcile, seed, submission>>

\* selectDate without the check of isPastDate
selectDate_AllowsPast(day) ==
    /\ Interactive /\ keyDown.pc = "idle" /\ showDatePicker
    /\ day \in 1..getDaysInMonth(datePicker.selectedMonth, datePicker.selectedYear)
    /\ LET newDate == NewDate(datePicker.selectedYear, datePicker.selectedMonth, day)
       IN  datePicker' = Rerender(datePicker,
                                  [datePicker EXCEPT !.selectedDate = newDate],
                                  "date", now, TRUE)
    /\ UNCHANGED <<now, step, formData, showDatePicker, showTimePicker,
                   timePicker, keyDown, reconcile, seed, submission>>

\* selectDate(day): a click on a cell of the calendar grid
selectDate(day) ==
    /\ Interactive /\ keyDown.pc = "idle" /\ showDatePicker
    /\ day \in 1..getDaysInMonth(datePicker.selectedMonth, datePicker.selectedYear)
    /\ LET newDate == NewDate(datePicker.selectedYear, datePicker.selectedMonth, day)
       IN  IF ~isPastDate(newDate, now)
           THEN datePicker' = Rerender(datePicker,
                                  [datePicker EXCEPT !.selectedDate = newDate],
                                  "date", now, TRUE)
           ELSE datePicker' = datePicker
    /\ UNCHANGED <<now, step, formData, showDatePicker, showTimePicker,
                   timePicker, keyDown, reconcile, seed, submission>>

\* the list adapter is shown
ListShown == showTimePicker /\ ~timePicker.isMobile

\* the wheel adapter is shown
WheelShown == showTimePicker /\ timePicker.isMobile /\ Len(timePicker.availableSlots) > 0

\* setSelectedSlot(slot) from an adapter of the time-mode modal
SetSelectedSlot(slot) ==
    timePicker' = Rerender(timePicker, [timePicker EXCEPT !.selectedSlot = slot],
                           "time", now, FALSE)

\* the click handler of a slot button without the check of isDisabled
ClickSlot_IgnoresDisabled(index) ==
    /\ Interactive /\ keyDown.pc = "idle" /\ ListShown
    /\ SetSelectedSlot(getAllTimeSlots[index + 1])
    /\ UNCHANGED <<now, step, formData, showDatePicker, showTimePicker,
                   datePicker, keyDown, reconcile, seed, submission>>

\* DesktopTimePicker: click on the button at position index
ClickSlot(index) ==
    /\ Interactive /\ keyDown.pc = "idle" /\ ListShown
    /\ LET slot == getAllTimeSlots[index + 1]
           isDisabled == Includes(timePicker.disabledSlots, slot)
       IN  IF ~isDisabled THEN SetSelectedSlot(slot) ELSE timePicker' = timePicker
    /\ UNCHANGED <<now, step, formData, showDatePicker, showTimePicker,
                   datePicker, keyDown, reconcile, seed, submission>>

Min(a, b) == IF a < b THEN a ELSE b
Max(a, b) == IF a > b THEN a ELSE b

\* the wheel taking its item from the whole catalog
clampedItem_OfCatalog(items, index) ==
    getAllTimeSlots[Max(0, Min(index, Len(getAllTimeSlots) - 1)) + 1]

\* items[clampedIndex] of WheelPicker.handleScroll for the position index
clampedItem(items, index) == items[Max(0, Min(index, Len(items) - 1)) + 1]

\* WheelPicker.handleScroll with the container scrolled to position index
handleScroll(index) ==
    /\ Interactive /\ keyDown.pc = "idle" /\ WheelShown
    /\ LET item == clampedItem(timePicker.availableSlots, index)
       IN  IF item # timePicker.selectedSlot
           THEN SetSelectedSlot(item)
           ELSE timePicker' = timePicker
    /\ UNCHANGED <<now, step, formData, showDatePicker, showTimePicker,
                   datePicker, keyDown, reconcile, seed, submission>>

\* a button of the list can take the focus only if it is rendered enabled
Focusable(index) ==
    /\ index \in 0..(Len(getAllTimeSlots) - 1)
    /\ ~Includes(timePicker.disabledSlots, getAllTimeSlots[index + 1])

\* DesktopTimePicker.handleKeyDown, Enter on the focused button
KeyEnter(index) ==
    /\ Interactive /\ keyDown.pc = "idle" /\ ListShown /\ Focusable(index)
    /\ LET currentSlot == getAllTimeSlots[index + 1]
       IN  IF ~Includes(timePicker.disabledSlots, currentSlot)
           THEN SetSelectedSlot(currentSlot)
           ELSE timePicker' = timePicker
    /\ UNCHANGED <<now, step, formData, showDatePicker, showTimePicker,
                   datePicker, keyDown, reconcile, seed, submission>>

\* DesktopTimePicker.handleKeyDown, ArrowDown or ArrowUp on the focused
\* button: entry of the do-while loop
KeyArrow(key, index) ==
    /\ Interactive /\ keyDown.pc = "idle" /\ ListShown /\ Focusable(index)
    /\ keyDown' = [pc |-> "loop", key |-> key, index |-> index, newIndex |-> index]
    /\ UNCHANGED <<now, step, formData, showDatePicker, showTimePicker,
                   datePicker, timePicker, reconcile, seed, submission>>

\* the body of the do-while loop: the next value of newIndex
LoopBody(key, newIndex) ==
    IF key = "ArrowDown"
    THEN Min(newIndex + 1, Len(getAllTimeSlots) - 1)
    ELSE Max(newIndex - 1, 0)

\* the condition of the do-while loop
LoopCondition(newIndex, index) ==
    /\ Includes(timePicker.disabledSlots, getAllTimeSlots[newIndex + 1])
    /\ newIndex # index

\* one iteration of the loop, and the statements after it when it exits
KeyLoopStep ==
    /\ keyDown.pc = "loop"
    /\ LET newIndex == LoopBody(keyDown.key, keyDown.newIndex)
       IN  IF LoopCondition(newIndex, keyDown.index)
           THEN /\ keyDown' = [keyDown EXCEPT !.newIndex = newIndex]
                /\ timePicker' = timePicker
           ELSE /\ keyDown' = KeyIdle
                /\ IF ~Includes(timePicker.disabledSlots, getAllTimeSlots[newIndex + 1])
                   THEN SetSelectedSlot(getAllTimeSlots[newIndex + 1])
                   ELSE timePicker' = timePicker
    /\ UNCHANGED <<now, step, formData, showDatePicker, showTimePicker,
                   datePicker, reconcile, seed, submission>>

\* handleConfirm of the date-mode modal (OK button, disabled as rendered)
ConfirmDate ==
    /\ Interactive /\ keyDown.pc = "idle" /\ showDatePicker
    /\ ~datePicker.confirmDisabled
    /\ formData' = [formData EXCEPT !.date = DateStr(datePicker.selectedDate)]
    /\ showDatePicker' = FALSE
    /\ RenderPickers
    /\ UNCHANGED <<now, step, showTimePicker, keyDown, reconcile, seed, submission>>

\* the onConfirm callback of the time-mode modal recording the date as well
ConfirmTime_WritesDate ==
    /\ Interactive /\ keyDown.pc = "idle" /\ showTimePicker
    /\ ~timePicker.confirmDisabled
    /\ formData' = [formData EXCEPT !.time = TimeStr("time", timePicker.selectedSlot),
                                    !.date = DateStr(timePicker.selectedDate)]
    /\ showTimePicker' = FALSE
    /\ RenderPickers
    /\ UNCHANGED <<now, step, showDatePicker, keyDown, reconcile, seed, submission>>

\* handleConfirm of the time-mode modal (OK button, disabled as rendered)
ConfirmTime ==
    /\ Interactive /\ keyDown.pc = "idle" /\ showTimePicker
    /\ ~timePicker.confirmDisabled
    /\ formData' = [formData EXCEPT !.time = TimeStr("time", timePicker.selectedSlot)]
    /\ showTimePicker' = FALSE
    /\ RenderPickers
    /\ UNCHANGED <<now, step, showDatePicker, keyDown, reconcile, seed, submission>>

\* checkDevice on a resize of the window
Resize ==
    /\ Interactive /\ keyDown.pc = "idle" /\ step = 3
    /\ \E mobile \in BOOLEAN :
        /\ datePicker' = Rerender(datePicker, [datePicker EXCEPT !.isMobile = mobile],
                                  "date", now, FALSE)
        /\ timePicker' = Rerender(timePicker, [timePicker EXCEPT !.isMobile = mobile],
                                  "time", now, FALSE)
    /\ UNCHANGED <<now, step, formData, showDatePicker, showTimePicker,
                   keyDown, reconcile, seed, submission>>

(***************************************************************************)
(* Step 3 advance button, step 4 and submission                            *)
(***************************************************************************)
\* the Next Step button calling onClick although it is disabled
NextStepButton_IgnoresDisabled ==
    /\ PageIdle /\ step = 3
    /\ step' = step + 1
    /\ UnmountPickers
    /\ UNCHANGED <<now, formData, showDatePicker, showTimePicker, keyDown, reconcile, seed,
                   submission>>

\* a click on the Next Step button of step 3: Button.handleClick returns at
\* once while the button is disabled
NextStepButton ==
    /\ PageIdle /\ step = 3
    /\ IF formData.date = <<>> THEN UNCHANGED vars ELSE handleNext

\* updateDetail(field, value): typing into a field of step 4
updateDetail(field, value) ==
    /\ PageIdle /\ step = 4
    /\ formData' = [formData EXCEPT !.details[field] = value]
    /\ UNCHANGED <<now, step, showDatePicker, showTimePicker, datePicker,
                   timePicker, keyDown, reconcile, seed, submission>>

\* <input type="email">: the value has a character before and after an "@"
ValidEmail(value) == \E i \in 2..(Len(value) - 1) : value[i] = "@"

\* constraint validation of the form of step 4: the required fields and the
\* email type
FormValid(details) ==
    /\ details.name # <<>>
    /\ details.email # <<>> /\ ValidEmail(details.email)
    /\ details.brief # <<>>

\* the object handleSubmit passes to JSON.stringify
Payload(data) ==
    [service |-> data.serviceType,
     date |-> data.date,
     time |-> data.time,
     name |-> data.details.name,
     email |-> data.details.email,
     phone |-> data.details.phone,
     company |-> data.details.company,
     brief |-> data.details.brief,
     budget |-> data.details.budget]

\* handleSubmit without the validation of the form
handleSubmit_NoValidation ==
    /\ PageIdle /\ step = 4
    /\ Len(requests) < MaxInFlight
    /\ requests' = Append(requests, Payload(formData))
    /\ UNCHANGED <<now, step, formData, showDatePicker, showTimePicker, datePicker,
                   timePicker, keyDown, reconcile, seed, submitted, alertShown>>

\* the Submit Request button: the form is validated, then handleSubmit runs
\* up to its fetch
handleSubmit ==
    /\ PageIdle /\ step = 4
    /\ FormValid(formData.details)
    /\ Len(requests) < MaxInFlight
    /\ requests' = Append(requests, Payload(formData))
    /\ UNCHANGED <<now, step, formData, showDatePicker, showTimePicker, datePicker,
                   timePicker, keyDown, reconcile, seed, submitted, alertShown>>

\* seq without its item at position i
RemoveAt(seq, i) == SubSeq(seq, 1, i - 1) \o SubSeq(seq, i + 1, Len(seq))

\* the rest of handleSubmit returning the wizard to step 1 after the alert
AwaitFetch_Restarts(i, outcome) ==
    /\ ~alertShown /\ keyDown.pc = "idle"
    /\ i \in 1..Len(requests)
    /\ requests' = RemoveAt(requests, i)
    /\ submitted' = (submitted \/ outcome = "success")
    /\ alertShown' = (outcome = "failure")
    /\ step' = IF outcome = "failure" THEN 1 ELSE step
    /\ IF step = 3 /\ (step' # 3 \/ (submitted' /\ ~submitted))
       THEN UnmountPickers
       ELSE UNCHANGED <<datePicker, timePicker>>
    /\ UNCHANGED <<now, formData, showDatePicker, showTimePicker, keyDown,
                   reconcile, seed>>

\* the rest of handleSubmit showing the wizard again when a later response
\* carries no success
AwaitFetch_LeavesSubmitted(i, outcome) ==
    /\ ~alertShown /\ keyDown.pc = "idle"
    /\ i \in 1..Len(requests)
    /\ requests' = RemoveAt(requests, i)
    /\ submitted' = (outcome = "success")
    /\ alertShown' = (outcome = "failure")
    /\ IF step = 3 /\ submitted' # submitted
       THEN IF submitted' THEN UnmountPickers ELSE MountPickers(formData)
       ELSE UNCHANGED <<datePicker, timePicker>>
    /\ UNCHANGED <<now, step, formData, showDatePicker, showTimePicker, keyDown,
                   reconcile, seed>>

\* the rest of handleSubmit once the fetch of request i has settled: a
\* rejection leaves handleSubmit by an exception nothing catches, a response
\* without success raises the alert, a response with success shows the
\* submitted view (which replaces the wizard and its modals)
AwaitFetch(i, outcome) ==
    /\ ~alertShown /\ keyDown.pc = "idle"
    /\ i \in 1..Len(requests)
    /\ requests' = RemoveAt(requests, i)
    /\ submitted' = (submitted \/ outcome = "success")
    /\ alertShown' = (outcome = "failure")
    /\ IF step = 3 /\ submitted' /\ ~submitted
       THEN UnmountPickers
       ELSE UNCHANGED <<datePicker, timePicker>>
    /\ UNCHANGED <<now, step, formData, showDatePicker, showTimePicker, keyDown,
                   reconcile, seed>>

\* the user closes the alert() dialog
DismissAlert ==
    /\ alertShown
    /\ alertShown' = FALSE
    /\ UNCHANGED <<now, step, formData, showDatePicker, showTimePicker, datePicker,
                   timePicker, keyDown, reconcile, seed, submitted, requests>>

Next ==
    \/ Tick
    \/ \E type \in ServiceChoices : SelectService(type)
    \/ \E id \in PackageChoices : SelectPackage(id)
    \/ handleBack
    \/ handleNext
    \/ OpenDatePicker
    \/ OpenTimePicker
    \/ ClosePicker
    \/ \E direction \in {"prev", "next"} : navigateMonth(direction)
    \/ \E day \in ClickDays : selectDate(day)
    \/ \E index \in ClickIndexes : ClickSlot(index)
    \/ \E index \in ScrollIndexes : handleScroll(index)
    \/ \E index \in FocusIndexes : KeyEnter(index)
    \/ \E key \in {"ArrowDown", "ArrowUp"}, index \in FocusIndexes : KeyArrow(key, index)
    \/ KeyLoopStep
    \/ ConfirmDate
    \/ ConfirmTime
    \/ Resize

Spec == Init /\ [][Next]_vars

\* the booking flow: the four steps with the modals confirmed or closed on
\* the selection they are seeded with, the form of step 4 and the submission
NextBooking ==
    \/ \E type \in ServiceOptions : SelectService(type)
    \/ \E id \in PackageOptions : SelectPackage(id)
    \/ handleBack
    \/ NextStepButton
    \/ OpenDatePicker
    \/ OpenTimePicker
    \/ ClosePicker
    \/ ConfirmDate
    \/ ConfirmTime
    \/ \E input \in DetailInputs : updateDetail(input[1], input[2])
    \/ handleSubmit
    \/ \E i \in 1..MaxInFlight, outcome \in Outcomes : AwaitFetch(i, outcome)
    \/ DismissAlert

SpecBooking == Init /\ [][NextBooking]_vars

\* the calendar flow: the date-mode modal opened at step 3, its month
\* navigated, its cells clicked and its selection confirmed, while the
\* clock advances
NextCalendar ==
    \/ Tick
    \/ \E type \in ServiceChoices : SelectService(type)
    \/ \E id \in PackageChoices : SelectPackage(id)
    \/ handleBack
    \/ OpenDatePicker
    \/ ClosePicker
    \/ \E direction \in {"prev", "next"} : navigateMonth(direction)
    \/ \E day \in CalendarDays : selectDate(day)
    \/ ConfirmDate

SpecCalendar == Init /\ [][NextCalendar]_vars

\* the time flow: the time-mode modal opened at step 3 and operated through
\* the list or the wheel, with the date-mode modal confirmed as seeded, while
\* the clock advances and the window is resized
NextTime ==
    \/ Tick
    \/ \E type \in ServiceChoices : SelectService(type)
    \/ \E id \in PackageChoices : SelectPackage(id)
    \/ handleBack
    \/ OpenDatePicker
    \/ OpenTimePicker
    \/ ClosePicker
    \/ \E index \in TimeIndexes : ClickSlot(index)
    \/ \E index \in TimeScrollIndexes : handleScroll(index)
    \/ \E index \in TimeIndexes : KeyEnter(index)
    \/ \E key \in {"ArrowDown", "ArrowUp"}, index \in TimeIndexes : KeyArrow(key, index)
    \/ KeyLoopStep
    \/ ConfirmDate
    \/ ConfirmTime
    \/ Resize

SpecTime == Init /\ [][NextTime]_vars

(***************************************************************************)
(* Stand-alone reconciliation: the auto-correct effect applied to inputs   *)
(* drawn from a prefix of the catalog                                      *)
(***************************************************************************)
\* the items of seq at the positions in S, in order
RECURSIVE Pick(_, _, _)
Pick(seq, S, i) ==
    IF i > Len(seq) THEN <<>>
    ELSE (IF i \in S THEN <<seq[i]>> ELSE <<>>) \o Pick(seq, S, i + 1)

ReconcileAvailables ==
    {Pick(getAllTimeSlots, S, 1) : S \in SUBSET (1..MaxReconcileSlots)}

\* current slots: every quarter of an hour of the first hours of the catalog
ReconcileCurrents ==
    {SlotString(FirstHour + h, m) : h \in 0..(MaxReconcileSlots \div 2),
                                    m \in {0, 15, 30, 45}}

InitReconcile ==
    /\ now = FirstDay + 9 * 60
    /\ step = 1
    /\ formData = EmptyBooking
    /\ showDatePicker = FALSE
    /\ showTimePicker = FALSE
    /\ datePicker = Unmounted
    /\ timePicker = Unmounted
    /\ submitted = FALSE
    /\ alertShown = FALSE
    /\ requests = <<>>
    /\ seed = SeedIdle
    /\ keyDown = KeyIdle
    /\ reconcile \in {[phase |-> "input", mode |-> mode, selectedSlot |-> slot,
                       availableSlots |-> slots, result |-> <<>>] :
                        mode \in {"date", "time"},
                        slot \in ReconcileCurrents,
                        slots \in ReconcileAvailables}

\* the auto-correct effect runs on the inputs
RunAutoCorrect ==
    /\ reconcile.phase = "input"
    /\ reconcile' = [reconcile EXCEPT
                       !.phase = "done",
                       !.result = AutoCorrect(reconcile.mode, reconcile.selectedSlot,
                                              reconcile.availableSlots)]
    /\ UNCHANGED <<now, step, formData, showDatePicker, showTimePicker,
                   datePicker, timePicker, keyDown, seed, submission>>

NextReconcile == RunAutoCorrect

SpecReconcile == InitReconcile /\ [][NextReconcile]_vars

(***************************************************************************)
(* Stand-alone mount: a DateTimePickerModal created with initialDate and   *)
(* initialTime drawn from valid, past and malformed values                 *)
(***************************************************************************)
\* initialDate: none, today, tomorrow, yesterday, the 32nd of the month (which
\* new Date rolls over into the next month), a string without a day and a
\* string without numbers
SeedDates ==
    {<<>>, DateStr(FirstDay), DateStr(FirstDay + MinutesPerDay),
     DateStr(FirstDay - MinutesPerDay),
     <<"2", "0", "2", "4", "-", "1", "2", "-", "3", "2">>,
     <<"2", "0", "2", "4", "-", "1", "2">>,
     <<"a", "b", "c">>}

\* initialTime: none, the first and the last slot of the catalog, a time
\* between two slots and a string that is no time
SeedTimes ==
    {<<>>, SlotString(FirstHour, 0), SlotString(LastHour, 30),
     SlotString(FirstHour, 15), <<"x">>}

InitSeed ==
    /\ now \in {t \in Instants : stripTime(t) = FirstDay}
    /\ step = 1
    /\ formData = EmptyBooking
    /\ showDatePicker = FALSE
    /\ showTimePicker = FALSE
    /\ datePicker = Unmounted
    /\ timePicker = Unmounted
    /\ keyDown = KeyIdle
    /\ reconcile = ReconcileIdle
    /\ submitted = FALSE
    /\ alertShown = FALSE
    /\ requests = <<>>
    /\ seed \in {[phase |-> "input", mode |-> mode, initialDate |-> date,
                  initialTime |-> time, picker |-> Unmounted] :
                    mode \in {"date", "time"},
                    date \in SeedDates,
                    time \in SeedTimes}

\* the modal is created with the drawn props
MountSeed ==
    /\ seed.phase = "input"
    /\ \E mobile \in BOOLEAN :
          seed' = [seed EXCEPT
                     !.phase = "mounted",
                     !.picker = Mount(seed.mode, seed.initialDate, seed.initialTime,
                                      now, mobile)]
    /\ UNCHANGED <<now, step, formData, showDatePicker, showTimePicker,
                   datePicker, timePicker, keyDown, reconcile, submission>>

NextSeed == MountSeed

SpecSeed == InitSeed /\ [][NextSeed]_vars

(***************************************************************************)
(* Properties                                                              *)
(***************************************************************************)
\* the time-mode modal is open and its rendered slot list is the current one
TimePickerCurrent ==
    /\ step = 3 /\ showTimePicker
    /\ timePicker.availableSlots = getAvailableTimeSlots(timePicker.selectedDate, now)

\* C1: in every state of an open time-mode modal whose slot list has just been
\* computed, the selected slot is absent or one of the slots available for the
\* selected date.  selectedSlot is always a slot string, never absent.
C1_SelectedSlotIsAvailable ==
    TimePickerCurrent => Includes(timePicker.availableSlots, timePicker.selectedSlot)

\* C2: handling an arrow key always completes: an iteration of the loop that
\* does not leave the loop moves newIndex, so the loop cannot repeat a state
\* for ever.
C2_ArrowKeyCompletes ==
    keyDown.pc = "loop" =>
        LET newIndex == LoopBody(keyDown.key, keyDown.newIndex)
        IN  LoopCondition(newIndex, keyDown.index) => newIndex # keyDown.newIndex

\* C3: an open time-mode modal is seeded from the wizard's current date: while
\* that date is not past, it is the modal's selected date, and when it is after
\* today the modal offers every slot of the catalog.
C3_TimePickerSeededFromWizardDate ==
    (/\ step = 3 /\ showTimePicker
     /\ formData.date # <<>>
     /\ ~isPastDate(ParseDate(formData.date), now))
    => /\ timePicker.selectedDate = ParseDate(formData.date)
       /\ (stripTime(ParseDate(formData.date)) > getTodayLocal(now)
              => /\ timePicker.availableSlots = getAllTimeSlots
                 /\ timePicker.disabledSlots = <<>>)

\* C4: the slots generated for a mounted picker are exactly 25, from 09:00 to
\* 21:00, each 30 minutes after the one before.
C4_CatalogHas25Slots ==
    step = 3 =>
        /\ Len(getAllTimeSlots) = 25
        /\ getAllTimeSlots[1] = <<"0", "9", ":", "0", "0">>
        /\ getAllTimeSlots[Len(getAllTimeSlots)] = <<"2", "1", ":", "0", "0">>
        /\ \A i \in 1..(Len(getAllTimeSlots) - 1) :
              SlotMinuteOfDay(getAllTimeSlots[i + 1])
                  = SlotMinuteOfDay(getAllTimeSlots[i]) + 30

\* dates the availability filter is asked about: now, today, tomorrow, the
\* selected dates of the mounted modals and the wizard's date
ProbeDates ==
    {now, getTodayLocal(now), getTodayLocal(now) + MinutesPerDay}
    \cup (IF step = 3 THEN {datePicker.selectedDate, timePicker.selectedDate} ELSE {})
    \cup (IF formData.date # <<>> THEN {ParseDate(formData.date)} ELSE {})

\* the instant of the i-th slot of the catalog on the calendar day of date
SlotInstant(date, i) ==
    DayIndex(date) * MinutesPerDay + FirstHour * 60 + 30 * (i - 1)

\* the positions of the catalog whose slot on the day of date is not before now
RECURSIVE NotBeforeNow(_, _)
NotBeforeNow(date, i) ==
    IF i > Len(getAllTimeSlots) THEN <<>>
    ELSE (IF SlotInstant(date, i) >= now THEN <<getAllTimeSlots[i]>> ELSE <<>>)
         \o NotBeforeNow(date, i + 1)

\* C5: for a date that is today, a slot is disabled iff its instant on that
\* date is strictly before now, and the available slots are exactly the slots
\* that are not disabled, in catalog order.
C5_TodayDisabledIffBeforeNow ==
    \A date \in ProbeDates :
        DayIndex(date) = DayIndex(now) =>
            /\ \A i \in 1..Len(getAllTimeSlots) :
                  isSlotDisabled(date, getAllTimeSlots[i], now)
                      <=> SlotInstant(date, i) < now
            /\ getAvailableTimeSlots(date, now) = NotBeforeNow(date, 1)

\* witness of C5: the time-mode modal shows today with a slot that has passed
\* and slots that have not
C5_Witness ==
    /\ step = 3 /\ showTimePicker
    /\ DayIndex(timePicker.selectedDate) = DayIndex(now)
    /\ timePicker.availableSlots = getAvailableTimeSlots(timePicker.selectedDate, now)
    /\ Len(timePicker.disabledSlots) > 0
    /\ Len(timePicker.availableSlots) > 0

\* C6: for a date whose calendar day is after today, at any instant, the
\* available slots are the whole catalog in order and no slot is disabled.
C6_FutureDateFullCatalog ==
    \A date \in ProbeDates :
        DayIndex(date) > DayIndex(now) =>
            /\ getAvailableTimeSlots(date, now) = getAllTimeSlots
            /\ \A i \in 1..Len(getAllTimeSlots) :
                  ~isSlotDisabled(date, getAllTimeSlots[i], now)

\* witness of C6: the time-mode modal shows a date after today with every slot
\* enabled, at an instant at which slots of today have passed
C6_Witness ==
    /\ step = 3 /\ showTimePicker
    /\ DayIndex(timePicker.selectedDate) > DayIndex(now)
    /\ timePicker.availableSlots = getAllTimeSlots
    /\ timePicker.disabledSlots = <<>>
    /\ Len(getAvailableTimeSlots(now, now)) < Len(getAllTimeSlots)

\* C7: a picker mounted without a valid initial date when every slot of today
\* has passed is seeded to the next day that has an available slot, not today.
C7_SeededToNextAvailableDate ==
    [][(/\ step # 3 /\ step' = 3
        /\ formData'.date = <<>> \/ isPastDate(ParseDate(formData'.date), now)
        /\ Len(getAvailableTimeSlots(getTodayLocal(now), now)) = 0)
       => /\ datePicker'.selectedDate = getNextAvailableDate(now)
          /\ timePicker'.selectedDate = getNextAvailableDate(now)
          /\ datePicker'.selectedDate # getTodayLocal(now)]_vars

\* the minute of the day a slot string "HH:mm" names
MinuteOfDay(slot) ==
    DigitValue(slot[1]) * 600 + DigitValue(slot[2]) * 60
    + DigitValue(slot[4]) * 10 + DigitValue(slot[5])

\* C8: reconciliation in the time-mode modal with a non-empty available set
\* leaves a current slot that is available unchanged; otherwise it yields the
\* available slot at the smallest distance in minutes of the day from the
\* current slot, the earliest one among equally distant slots; available
\* 09:00, 09:30, 10:00 with current 09:15 gives 09:00.
C8_ReconcileNearest ==
    (/\ reconcile.phase = "done" /\ reconcile.mode = "time"
     /\ Len(reconcile.availableSlots) > 0)
    => LET slots == reconcile.availableSlots
           current == reconcile.selectedSlot
           Distance(slot) == Abs(MinuteOfDay(slot) - MinuteOfDay(current))
       IN  /\ Includes(slots, current) => reconcile.result = current
           /\ ~Includes(slots, current) =>
                 \E k \in 1..Len(slots) :
                    /\ reconcile.result = slots[k]
                    /\ \A j \in 1..Len(slots) : Distance(slots[j]) >= Distance(slots[k])
                    /\ \A j \in 1..(k - 1) : Distance(slots[j]) > Distance(slots[k])
           /\ (/\ slots = <<SlotString(9, 0), SlotString(9, 30), SlotString(10, 0)>>
               /\ current = SlotString(9, 15))
              => reconcile.result = SlotString(9, 0)

\* witness of C8: the example of the claim, a tie between 09:00 and 09:30
C8_Witness ==
    /\ reconcile.phase = "done" /\ reconcile.mode = "time"
    /\ reconcile.availableSlots = <<SlotString(9, 0), SlotString(9, 30), SlotString(10, 0)>>
    /\ reconcile.selectedSlot = SlotString(9, 15)
    /\ reconcile.result = SlotString(9, 0)

\* C9: a picker opened again shows the selection seeded from the wizard's
\* values, not a selection that was made and abandoned: when the wizard's date
\* is not past, the date-mode modal opens on that date.
C9_ReopenSeededFromWizard ==
    [][(/\ ~showDatePicker /\ showDatePicker'
        /\ formData.date # <<>>
        /\ ~isPastDate(ParseDate(formData.date), now))
       => datePicker'.selectedDate = ParseDate(formData.date)]_vars

\* C10: the wizard's date and time change only in a confirm: the date becomes
\* the selected date of the date-mode modal as it closes, or the time becomes
\* the selected slot of the time-mode modal as it closes; every other step
\* leaves both unchanged.
C10_WizardChangesOnlyOnConfirm ==
    [][(formData'.date # formData.date \/ formData'.time # formData.time)
       => \/ /\ showDatePicker /\ ~showDatePicker'
             /\ ~datePicker.confirmDisabled
             /\ formData'.date = DateStr(datePicker.selectedDate)
             /\ formData'.time = formData.time
          \/ /\ showTimePicker /\ ~showTimePicker'
             /\ ~timePicker.confirmDisabled
             /\ formData'.time = timePicker.selectedSlot
             /\ formData'.date = formData.date]_vars

\* witness of C10: after both confirms, the date-mode modal is open again
\* with another cell selected and another month shown, and the wizard keeps
\* its date
C10_Witness ==
    /\ step = 3 /\ showDatePicker
    /\ formData.date # <<>> /\ formData.time # <<>>
    /\ datePicker.selectedDate # ParseDate(formData.date)
    /\ datePicker.selectedMonth # getMonth(datePicker.selectedDate)

\* C11: the step counter is always one of 1, 2, 3, 4, and every step that
\* changes it changes it by exactly one, forward or back.
C11_StepsAreLinear ==
    /\ [](step \in 1..4)
    /\ [][step' # step => (step' = step + 1 \/ step' = step - 1)]_vars

\* witness of C11: the counter has gone through 1, 2 and 3 to 4
C11_Witness ==
    /\ step = 4 /\ ~submitted
    /\ formData.serviceType # "" /\ formData.packageId # "" /\ formData.date # <<>>

\* C12: while no date has been chosen nothing takes the wizard from step 3 to
\* step 4, and a click on the advance button changes nothing; once a date has
\* been chosen the click advances to step 4, whether or not a time has been
\* chosen.
C12_AdvanceNeedsDate ==
    /\ [][/\ (step = 3 /\ formData.date = <<>>) => step' # 4
          /\ (NextStepButton /\ formData.date = <<>>) => UNCHANGED vars]_vars
    /\ []((PageIdle /\ step = 3 /\ formData.date # <<>>)
             => ENABLED (NextStepButton /\ step' = 4 /\ formData' = formData))

\* witness of C12: step 4 has been reached with a date and without a time
C12_Witness ==
    /\ step = 4 /\ ~submitted
    /\ formData.date # <<>> /\ formData.time = <<>>

\* C13: every step that decrements the step counter starts at step 2, 3 or 4,
\* decrements it by one and leaves every booking field unchanged, the fields
\* entered at later steps included.
C13_BackKeepsFields ==
    [][step' < step => (step \in 2..4 /\ step' = step - 1 /\ formData' = formData)]_vars

\* witness of C13: back at step 2 with the date of step 3 and the details of
\* step 4 still in place
C13_Witness ==
    /\ step = 2 /\ ~submitted
    /\ formData.packageId # "" /\ formData.date # <<>>
    /\ formData.details.name # <<>> /\ formData.details.brief # <<>>

\* the options step 1 and step 2 render
ServiceTypes == {"videography", "editing", "consultation"}
PackageIds == {"custom", "p1", "p2", "p3"}

\* C14: a step that leaves step 1 records one of the options as serviceType
\* and arrives at step 2, a step from step 2 to step 3 records a package
\* identifier or "custom" as packageId, both without changing any other
\* booking field; serviceType and packageId change in no other step.
C14_OptionRecordsAndAdvances ==
    [][/\ (step = 1 /\ step' # 1)
            => /\ step' = 2
               /\ formData'.serviceType \in ServiceTypes
               /\ formData' = [formData EXCEPT !.serviceType = formData'.serviceType]
       /\ (step = 2 /\ step' = 3)
            => /\ formData'.packageId \in PackageIds
               /\ formData' = [formData EXCEPT !.packageId = formData'.packageId]
       /\ formData'.serviceType # formData.serviceType => (step = 1 /\ step' = 2)
       /\ formData'.packageId # formData.packageId => (step = 2 /\ step' = 3)]_vars

\* witness of C14: "custom" has been selected at step 2 with a date and
\* details entered before, which are still in place at step 3
C14_Witness ==
    /\ step = 3 /\ ~submitted
    /\ formData.serviceType = "videography" /\ formData.packageId = "custom"
    /\ formData.date # <<>> /\ formData.details.name # <<>>

\* a step hands a request to the transport
RequestHanded == Len(requests') = Len(requests) + 1

\* the request a step hands to the transport
HandedRequest == requests'[Len(requests')]

\* C15: the payload handed to the transport reflects the booking state at the
\* moment of submission: service type, package, date, time, name, email,
\* phone, company, brief and budget.
C15_PayloadReflectsBooking ==
    [][RequestHanded =>
          /\ HandedRequest.service = formData.serviceType
          /\ "package" \in DOMAIN HandedRequest
          /\ HandedRequest.package = formData.packageId
          /\ HandedRequest.date = formData.date
          /\ HandedRequest.time = formData.time
          /\ HandedRequest.name = formData.details.name
          /\ HandedRequest.email = formData.details.email
          /\ HandedRequest.phone = formData.details.phone
          /\ HandedRequest.company = formData.details.company
          /\ HandedRequest.brief = formData.details.brief
          /\ HandedRequest.budget = formData.details.budget]_vars

\* a step in which the fetch of a request settles with outcome while the
\* wizard is shown
Settles(outcome) ==
    ~submitted /\ \E i \in 1..Len(requests) : AwaitFetch(i, outcome)

\* C16: when the transport call itself fails, an alert is shown, the wizard
\* stays where it is and not submitted, and every booking field is unchanged.
C16_RejectionRaisesAlert ==
    [][Settles("rejected") =>
          /\ alertShown'
          /\ ~submitted'
          /\ step' = step
          /\ formData' = formData]_vars

C18_SubmittedIsTerminal ==
    [][/\ Settles("success") => submitted'
       /\ submitted => (submitted' /\ step' = step /\ formData' = formData)]_vars

\* witness of C18: the submitted view is shown and a later response without
\* success has raised its alert
C18_Witness == submitted /\ alertShown /\ requests = <<>>

\* C19: a request is handed to the transport only from step 4 and only when
\* name, email and brief are all non-empty; phone, company and budget may be
\* empty.
C19_SubmitNeedsRequiredFields ==
    [][RequestHanded =>
          /\ step = 4
          /\ formData.details.name # <<>>
          /\ formData.details.email # <<>>
          /\ formData.details.brief # <<>>]_vars

\* witness of C19: a request is under way whose phone, company and budget
\* are empty
C19_Witness ==
    /\ Len(requests) > 0
    /\ requests[1].name # <<>> /\ requests[1].email # <<>> /\ requests[1].brief # <<>>
    /\ requests[1].phone = <<>> /\ requests[1].company = <<>>
    /\ requests[1].budget = <<>>

\* C20: whatever initial date and initial time a picker is created with, it
\* starts on a valid date that is not past, shows a valid month and year, and
\* starts on a slot that is available for that date.
C20_SeedsAreSanitized ==
    seed.phase = "mounted" =>
        /\ seed.picker.selectedDate # NaN
        /\ seed.picker.selectedMonth # NaN /\ seed.picker.selectedYear # NaN
        /\ stripTime(seed.picker.selectedDate) >= getTodayLocal(now)
        /\ Includes(getAvailableTimeSlots(seed.picker.selectedDate, now),
                    seed.picker.selectedSlot)
\* the date of the cell day of the month the date-mode modal displays
CellDate(day) == NewDate(datePicker.selectedYear, datePicker.selectedMonth, day)

\* C21: a click on a cell whose date is before today leaves the selected date,
\* the selected slot and the displayed month and year of the date-mode modal
\* unchanged; a click on any other cell makes the date of that cell the
\* selected date; and whenever the selected date of the open modal changes,
\* the new selected date is not before today.
C21_PastCellsNotSelectable ==
    [][/\ \A day \in CalendarDays :
            selectDate(day) =>
                IF stripTime(CellDate(day)) < stripTime(now)
                THEN /\ datePicker'.selectedDate = datePicker.selectedDate
                     /\ datePicker'.selectedSlot = datePicker.selectedSlot
                     /\ datePicker'.selectedMonth = datePicker.selectedMonth
                     /\ datePicker'.selectedYear = datePicker.selectedYear
                ELSE datePicker'.selectedDate = CellDate(day)
       /\ (/\ showDatePicker /\ showDatePicker'
           /\ datePicker'.selectedDate # datePicker.selectedDate)
            => stripTime(datePicker'.selectedDate) >= stripTime(now')]_vars

\* witness of C21: the 31st of the following month has been selected by a
\* click, and the modal shows the month of today again, whose first cell is
\* before today
C21_Witness ==
    /\ showDatePicker
    /\ datePicker.selectedMonth = getMonth(now)
    /\ datePicker.selectedYear = getFullYear(now)
    /\ stripTime(CellDate(1)) < stripTime(now)
    /\ getMonth(datePicker.selectedDate) # datePicker.selectedMonth
    /\ getDate(datePicker.selectedDate) = 31
\* the button at position index is rendered disabled
RenderedDisabled(index) ==
    Includes(timePicker.disabledSlots, getAllTimeSlots[index + 1])

\* the positions an arrow key passes from the focused position: the ones
\* after it for ArrowDown, the ones before it for ArrowUp
InDirection(key, index) ==
    IF key = "ArrowDown" THEN (index + 1)..(Len(getAllTimeSlots) - 1)
    ELSE 0..(index - 1)

\* position k is the nearest enabled position in the direction of the key:
\* enabled, with only disabled positions between the focus and it
NearestEnabled(key, index, k) ==
    /\ k \in InDirection(key, index)
    /\ ~RenderedDisabled(k)
    /\ \A j \in InDirection(key, index) :
            Abs(j - index) < Abs(k - index) => RenderedDisabled(j)

C23_WheelCommitsItsItems ==
    /\ [](WheelShown =>
            /\ \A i \in 1..Len(timePicker.availableSlots) :
                    /\ Includes(getAllTimeSlots, timePicker.availableSlots[i])
                    /\ ~Includes(timePicker.disabledSlots, timePicker.availableSlots[i])
            /\ \A index \in TimeScrollIndexes :
                    Includes(timePicker.availableSlots,
                             clampedItem(timePicker.availableSlots, index)))
    /\ [][/\ (/\ WheelShown /\ showTimePicker' /\ now' = now
              /\ timePicker'.isMobile
              /\ timePicker' # timePicker)
               => \E i \in 1..Len(timePicker.availableSlots) :
                       SetSelectedSlot(timePicker.availableSlots[i])
          /\ (/\ showTimePicker /\ timePicker.isMobile
              /\ Len(timePicker.availableSlots) = 0
              /\ showTimePicker' /\ timePicker'.isMobile /\ now' = now)
               => timePicker' = timePicker]_vars

\* witness of C23: the wheel is shown with fewer items than the catalog has,
\* and its last item is selected, the one a scroll beyond its end commits
C23_Witness ==
    /\ WheelShown
    /\ Len(timePicker.availableSlots) < Len(getAllTimeSlots)
    /\ formData.time = <<>>
    /\ timePicker.selectedSlot = getAllTimeSlots[Len(getAllTimeSlots)]
\* C24: while the time-mode modal stays open, the adapter it shows (the wheel
\* when isMobile, the list otherwise) does not change.
C24_AdapterFixedWhileOpen ==
    [][(showTimePicker /\ showTimePicker')
            => timePicker'.isMobile = timePicker.isMobile]_vars
\* C25: a confirm of the time-mode modal open on today never writes a slot
\* whose instant the clock has passed: by the time of the confirm the
\* selection has been moved to a slot that is still available.
C25_PassedSlotNotEmitted ==
    [][(ConfirmTime /\ isTodayDate(timePicker.selectedDate, now))
            => ~isSlotDisabled(timePicker.selectedDate, formData'.time, now)]_vars
\* the month and year the date-mode modal displays
Displayed == [month |-> datePicker.selectedMonth, year |-> datePicker.selectedYear]

\* C26: the month the date-mode modal displays is always one of 0..11; from
\* the displayed month, "previous" from January gives December of the year
\* before, "next" from December gives January of the year after, and "next"
\* followed by "previous" (and "previous" followed by "next") gives the
\* displayed month and year again; and every step that changes the displayed
\* month of the open modal moves it by exactly one month, to the month
\* navigateMonth computes.
C26_MonthNavigationWraps ==
    /\ [](datePicker.mounted =>
            LET next == MonthAfter("next", Displayed.month, Displayed.year)
                prev == MonthAfter("prev", Displayed.month, Displayed.year)
            IN  /\ Displayed.month \in 0..11
                /\ next.month \in 0..11 /\ prev.month \in 0..11
                /\ Displayed.month = 0
                        => prev = [month |-> 11, year |-> Displayed.year - 1]
                /\ Displayed.month = 11
                        => next = [month |-> 0, year |-> Displayed.year + 1]
                /\ MonthAfter("prev", next.month, next.year) = Displayed
                /\ MonthAfter("next", prev.month, prev.year) = Displayed)
    /\ [][/\ \A direction \in {"prev", "next"} :
               navigateMonth(direction) =>
                   /\ Displayed' = MonthAfter(direction, Displayed.month, Displayed.year)
                   /\ datePicker'.selectedDate = datePicker.selectedDate
          /\ (showDatePicker /\ showDatePicker' /\ Displayed' # Displayed)
               => Abs(MonthIndex(Displayed'.year, Displayed'.month)
                      - MonthIndex(Displayed.year, Displayed.month)) = 1]_vars

\* witness of C26: while the clock is in December, the modal displays that
\* December with the 1st of January of the next year selected, a date that is
\* selected or seeded with January displayed: "previous" has wrapped from
\* January to December of the year before
C26_Witness ==
    /\ showDatePicker
    /\ getMonth(now) = 11
    /\ Displayed = [month |-> 11, year |-> getFullYear(now)]
    /\ getMonth(datePicker.selectedDate) = 0
    /\ getFullYear(datePicker.selectedDate) = getFullYear(now) + 1
    /\ getDate(datePicker.selectedDate) = 1
\* C27: at most one submission request is in flight at any time, and while
\* one is in flight no step starts another or changes the step or the
\* booking fields.
C27_OneRequestInFlight ==
    /\ [](Len(requests) <= 1)
    /\ [][requests # <<>>
            => /\ Len(requests') <= Len(requests)
               /\ step' = step /\ formData' = formData]_vars

\* C28: the step in which the wizard becomes Submitted starts at step 4 and
\* settles a request whose body holds the values the booking fields have at
\* that moment.
C28_SubmittedShowsWhatWasSent ==
    [][(~submitted /\ submitted')
            => /\ step = 4
               /\ \E i \in 1..Len(requests) :
                    /\ requests' = RemoveAt(requests, i)
                    /\ requests[i] = Payload(formData)]_vars
\* C29: a confirm of the time-mode modal writes a slot of the catalog that
\* is not disabled for the modal's selected date at the instant of the
\* confirm, and happens only while that date has an available slot; a
\* confirm of the date-mode modal writes a date that is not past at the
\* instant of the confirm.
C29_ConfirmedValuesAreValid ==
    [][/\ ConfirmTime
            => /\ Includes(getAllTimeSlots, formData'.time)
               /\ ~isSlotDisabled(timePicker.selectedDate, formData'.time, now)
               /\ Len(getAvailableTimeSlots(timePicker.selectedDate, now)) > 0
       /\ ConfirmDate
            => ~isPastDate(ParseDate(formData'.date), now)]_vars

\* C30: a confirm of the date-mode modal, and every step that closes it,
\* leaves the step and every booking field but date unchanged; a confirm of
\* the time-mode modal, and every step that closes it, leaves the step and
\* every booking field but time unchanged.
C30_ConfirmWritesOneField ==
    [][/\ (ConfirmDate \/ (showDatePicker /\ ~showDatePicker'))
            => /\ formData' = [formData EXCEPT !.date = formData'.date]
               /\ step' = step
       /\ (ConfirmTime \/ (showTimePicker /\ ~showTimePicker'))
            => /\ formData' = [formData EXCEPT !.time = formData'.time]
               /\ step' = step]_vars

\* witness of C30: back at step 3, a time has been confirmed after a request
\* was sent without one, and the date and the details are still the ones
\* that were sent
C30_Witness ==
    /\ step = 3 /\ ~showDatePicker /\ ~showTimePicker
    /\ Len(requests) = 1
    /\ requests[1].time = <<>> /\ formData.time # <<>>
    /\ formData.date # <<>>
    /\ requests[1] = Payload([formData EXCEPT !.time = <<>>])
=============================================================================
